---- MODULE Spec2Model ----
(***************************************************************************)
(* Model of byte-array-blob (src/src/lib.rs): byte_arrays_to_blob packs a  *)
(* sequence of byte slices into one blob, each slice preceded by a 4-byte  *)
(* native-endian u32 holding the absolute offset at which the slice ends;  *)
(* blob_to_byte_arrays walks such a blob and returns the slices as views.  *)
(*                                                                         *)
(* The target modelled is a 64-bit one (usize is 64 bits wide), the only   *)
(* kind on which a slice longer than u32::MAX exists.  The byte order of   *)
(* the target (to_ne_bytes / from_ne_bytes) is a choice of the build and   *)
(* is drawn in Init.                                                       *)
(*                                                                         *)
(* Numbers.  Offsets and lengths reach and pass 2^32, which is beyond the  *)
(* integers TLC computes with, so a usize value v is written as the pair   *)
(* <<v \div 2^16, v % 2^16>> ("wide" number) and the arithmetic the code   *)
(* does on usize is done on such pairs.  Every value of the model stays    *)
(* far below 2^64, so usize addition never wraps here.                     *)
(*                                                                         *)
(* Byte strings.  A slice of 2^32 bytes cannot be written out byte by      *)
(* byte, so a byte string is kept run-length encoded: a sequence of runs   *)
(* [b |-> byte, n |-> wide count], n > 0, neighbouring runs of different   *)
(* bytes.  The form is canonical: two byte strings are equal exactly when  *)
(* their run sequences are.                                                *)
(***************************************************************************)
EXTENDS Integers, Sequences, FiniteSets, TLC

\* ------------------------------------------------------------ bounds

\* Most slices handed to byte_arrays_to_blob in one call.
MaxBufs == 2
\* Most runs of equal bytes in one input slice.
MaxRuns == 2
\* Most pieces (a header or a run of bytes) an input blob is assembled from.
MaxPieces == 3

\* ------------------------------------------------------ wide numbers

\* Width of a frame header in bytes: the [u8; 4] of a u32.
HeaderBytes == 4

\* 2^16, the radix of the two digits of a wide number.
Half == 256 * 256

\* The usize value of a small non-negative integer.
Wide(k) == <<k \div Half, k % Half>>

\* usize +
Add(a, c) == LET s == a[2] + c[2] IN <<a[1] + c[1] + (s \div Half), s % Half>>

\* usize -, for a >= c (the code subtracts only inside slice ranges lo..hi)
Sub(a, c) ==
    IF a[2] >= c[2] THEN <<a[1] - c[1], a[2] - c[2]>>
                    ELSE <<a[1] - c[1] - 1, a[2] + Half - c[2]>>

\* usize <
Lt(a, c) == a[1] < c[1] \/ (a[1] = c[1] /\ a[2] < c[2])

\* usize <=
Le(a, c) == ~Lt(c, a)

\* u32::MAX as usize
U32_MAX == <<Half - 1, Half - 1>>

\* (v as u32) as usize: the low 32 bits of v
AsU32(v) == <<v[1] % Half, v[2]>>

\* u32::to_ne_bytes on a target of byte order e
to_ne_bytes(u, e) ==
    IF e = "little" THEN <<u[2] % 256, u[2] \div 256, u[1] % 256, u[1] \div 256>>
                    ELSE <<u[1] \div 256, u[1] % 256, u[2] \div 256, u[2] % 256>>

\* u32::from_ne_bytes(..) as usize on a target of byte order e
from_ne_bytes(d, e) ==
    IF e = "little" THEN <<d[4] * 256 + d[3], d[2] * 256 + d[1]>>
                    ELSE <<d[1] * 256 + d[2], d[3] * 256 + d[4]>>

\* ------------------------------------------------------ byte strings

Zero == Wide(0)

RECURSIVE SumHi(_)
\* Sum of the high digits of the run lengths of s.
SumHi(s) == IF s = <<>> THEN 0 ELSE s[1].n[1] + SumHi(Tail(s))

RECURSIVE SumLo(_)
\* Sum of the low digits of the run lengths of s.
SumLo(s) == IF s = <<>> THEN 0 ELSE s[1].n[2] + SumLo(Tail(s))

\* slice.len()
BLen(s) == <<SumHi(s) + (SumLo(s) \div Half), SumLo(s) % Half>>

\* Number of bytes in the first j runs of s.
Prefix(s, j) == BLen(SubSeq(s, 1, j))

\* Number of runs of s that lie wholly within its first k bytes.
RunsWithin(s, k) ==
    CHOOSE j \in 0..Len(s) :
        /\ Le(Prefix(s, j), k)
        /\ j < Len(s) => Lt(k, Prefix(s, j + 1))

\* Vec::extend: s followed by t
BCat(s, t) ==
    IF s = <<>> THEN t
    ELSE IF t = <<>> THEN s
    ELSE IF s[Len(s)].b = t[1].b
         THEN SubSeq(s, 1, Len(s) - 1)
              \o <<[b |-> t[1].b, n |-> Add(s[Len(s)].n, t[1].n)]>>
              \o Tail(t)
         ELSE s \o t

\* &s[..k], for k <= s.len()
BTake(s, k) ==
    SubSeq(s, 1, RunsWithin(s, k))
    \o (IF Prefix(s, RunsWithin(s, k)) = k THEN <<>>
        ELSE <<[b |-> s[RunsWithin(s, k) + 1].b,
                n |-> Sub(k, Prefix(s, RunsWithin(s, k)))]>>)

\* &s[k..], for k <= s.len()
BDrop(s, k) ==
    (IF Prefix(s, RunsWithin(s, k)) = k THEN <<>>
     ELSE <<[b |-> s[RunsWithin(s, k) + 1].b,
             n |-> Sub(Prefix(s, RunsWithin(s, k) + 1), k)]>>)
    \o SubSeq(s, RunsWithin(s, k) + (IF Prefix(s, RunsWithin(s, k)) = k THEN 1 ELSE 2),
              Len(s))

\* &s[lo..hi], for lo <= hi <= s.len().  (The bytes from lo on are bound by a
\* quantifier so that they are computed once.)
BSlice(s, lo, hi) ==
    CHOOSE r \in {BTake(d, Sub(hi, lo)) : d \in {BDrop(s, lo)}} : TRUE

\* s[i], for i < s.len()
BAt(s, i) == s[RunsWithin(s, i) + 1].b

RECURSIVE FromBytes(_)
\* The byte string of an explicit sequence of bytes q.  (The rest of the
\* string is bound by a quantifier so that it is computed once.)
FromBytes(q) ==
    IF q = <<>> THEN <<>>
    ELSE CHOOSE r \in {BCat(<<[b |-> q[1], n |-> Wide(1)]>>, t) :
                          t \in {FromBytes(Tail(q))}} : TRUE

\* ------------------------------------------------------------ inputs

\* Byte values of the input slices and of the filler bytes of input blobs.
ByteVals == {0, 255}

\* The longest body a single frame can have in a blob of u32::MAX bytes.
HugeLen == Sub(U32_MAX, Wide(HeaderBytes))

\* Lengths of the runs of the inputs.
RunLens == {Wide(1), HugeLen}

Runs == [b : ByteVals, n : RunLens]

\* The input slices: every byte string of at most MaxRuns runs.
Buffers ==
    {s \in UNION {[1..k -> Runs] : k \in 0..MaxRuns} :
        \A i \in 1..(Len(s) - 1) : s[i].b # s[i + 1].b}

\* The arguments of byte_arrays_to_blob: at most MaxBufs slices.
BufSeqs == UNION {[1..k -> Buffers] : k \in 0..MaxBufs}

\* Header values the input blobs are assembled from.
HeaderVals == {Wide(0), Wide(4), Wide(5), Wide(8), Wide(9), U32_MAX}

\* A piece of an input blob: the four bytes of a header value, or a run.
Pieces(e) ==
    {FromBytes(to_ne_bytes(v, e)) : v \in HeaderVals} \cup {<<r>> : r \in Runs}

RECURSIVE Flatten(_)
Flatten(ps) == IF ps = <<>> THEN <<>> ELSE BCat(ps[1], Flatten(Tail(ps)))

\* The arguments of blob_to_byte_arrays: every blob of at most MaxPieces pieces.
Blobs(e) == {Flatten(ps) : ps \in UNION {[1..k -> Pieces(e)] : k \in 0..MaxPieces}}

\* ------------------------------------------------------------- state

VARIABLES
    endian,       \* byte order of the target: "little" or "big"
    caller,       \* what the caller does: "encode_decode" or "decode_encode"
    pc,           \* position: enc_entry, enc_loop, dec_entry, dec_loop, done
    bytes_2d,     \* byte_arrays_to_blob: the argument
    enc_i,        \* byte_arrays_to_blob: slices the for loop has consumed
    enc_idx_end,  \* byte_arrays_to_blob: local idx_end
    enc_blob,     \* byte_arrays_to_blob: local blob, the value returned
    blob,         \* blob_to_byte_arrays: the argument
    idx_start,    \* blob_to_byte_arrays: local idx_start
    idx_end,      \* blob_to_byte_arrays: local idx_end
    byte_arrays,  \* blob_to_byte_arrays: local byte_arrays, views lo..hi of blob
    reads,        \* blob_to_byte_arrays: header reads attempted so far
    result        \* blob_to_byte_arrays: how the call ended

vars == <<endian, caller, pc, bytes_2d, enc_i, enc_idx_end, enc_blob, blob,
          idx_start, idx_end, byte_arrays, reads, result>>

enc_vars == <<bytes_2d, enc_i, enc_idx_end, enc_blob>>
dec_vars == <<blob, idx_start, idx_end, byte_arrays, reads, result>>

\* The call has not returned.
Running == [kind |-> "Running", idx |-> Zero]
\* Ok(byte_arrays)
Ok == [kind |-> "Ok", idx |-> Zero]
\* Err(BlobReadError::TooLarge)
TooLarge == [kind |-> "TooLarge", idx |-> Zero]
\* Err(BlobReadError::InvalidEncodedIndex(i))
InvalidEncodedIndex(i) == [kind |-> "InvalidEncodedIndex", idx |-> i]
\* The thread panicked: range end index out of range for slice.
Panic == [kind |-> "Panic", idx |-> Zero]

\* The bytes a view lo..hi of the blob refers to.
ViewBytes(v) == BSlice(blob, v.lo, v.hi)

Init ==
    /\ endian \in {"little", "big"}
    /\ caller \in {"encode_decode", "decode_encode"}
    /\ IF caller = "encode_decode"
       THEN bytes_2d \in BufSeqs /\ blob = <<>> /\ pc = "enc_entry"
       ELSE bytes_2d = <<>> /\ blob \in Blobs(endian) /\ pc = "dec_entry"
    /\ enc_i = 0
    /\ enc_idx_end = Zero
    /\ enc_blob = <<>>
    /\ idx_start = Zero
    /\ idx_end = Zero
    /\ byte_arrays = <<>>
    /\ reads = 0
    /\ result = Running

\* ------------------------------------------------- byte_arrays_to_blob

\* Mutant: the header holds the length of its own frame, not the running total.
EncNextEnd_PerFrame(end, byte_arr) == Add(Wide(HeaderBytes), BLen(byte_arr))

\* idx_end += 4 + byte_arr.len()
EncNextEnd(end, byte_arr) == Add(end, Add(Wide(HeaderBytes), BLen(byte_arr)))

\* Mutant: the header is written with to_be_bytes on every target.
EncHeader_Be(end, e) == FromBytes(to_ne_bytes(AsU32(end), "big"))

\* (idx_end as u32).to_ne_bytes()
EncHeader(end, e) == FromBytes(to_ne_bytes(AsU32(end), e))

\* Mutant: the header is not appended.
EncAppend_NoHeader(b, header, byte_arr) == BCat(b, byte_arr)

\* blob.extend(write_end_idx); blob.extend(byte_arr.into_iter())
EncAppend(b, header, byte_arr) ==
    CHOOSE r \in {BCat(BCat(b, h), byte_arr) : h \in {header}} : TRUE

\* let mut idx_end = 0; let mut blob = Vec::new();
EncEnter ==
    /\ pc = "enc_entry"
    /\ enc_idx_end' = Zero
    /\ enc_blob' = <<>>
    /\ enc_i' = 0
    /\ pc' = "enc_loop"
    /\ UNCHANGED <<endian, caller, bytes_2d>>
    /\ UNCHANGED dec_vars

\* One iteration of: for byte_arr in bytes_2d { .. }
EncIter ==
    /\ pc = "enc_loop"
    /\ enc_i < Len(bytes_2d)
    /\ enc_idx_end' = EncNextEnd(enc_idx_end, bytes_2d[enc_i + 1])
    /\ enc_blob' = EncAppend(enc_blob, EncHeader(enc_idx_end', endian),
                             bytes_2d[enc_i + 1])
    /\ enc_i' = enc_i + 1
    /\ UNCHANGED <<endian, caller, pc, bytes_2d>>
    /\ UNCHANGED dec_vars

\* The loop is over and blob is returned; the caller that encodes first hands
\* the blob to blob_to_byte_arrays.
EncReturn ==
    /\ pc = "enc_loop"
    /\ enc_i = Len(bytes_2d)
    /\ IF caller = "encode_decode"
       THEN blob' = enc_blob /\ pc' = "dec_entry"
       ELSE blob' = blob /\ pc' = "done"
    /\ UNCHANGED <<endian, caller, idx_start, idx_end, byte_arrays, reads, result>>
    /\ UNCHANGED enc_vars

\* ------------------------------------------------- blob_to_byte_arrays

\* Mutant: >= in place of >.
IsTooLarge_Ge(len) == Le(U32_MAX, len)

\* Mutant: the size guard is missing.
IsTooLarge_Never(len) == FALSE

\* blob.len() > u32::MAX as usize
IsTooLarge(len) == Lt(U32_MAX, len)

\* Mutant: the loop stops as soon as no more than a header's worth of bytes
\* is left.
LoopCond_Short(end, len) == Lt(Add(end, Wide(HeaderBytes)), len)

\* while idx_end < blob.len()
LoopCond(end, len) == Lt(end, len)

\* &blob[idx_start..idx_start+4] is in bounds
HeaderInBounds(start, len) == Le(Add(start, Wide(HeaderBytes)), len)

\* u32::from_ne_bytes(blob[idx_start..idx_start+4]) as usize.  (The four bytes
\* are bound by a quantifier so that they are read once.)
ReadHeader(b, start, e) ==
    CHOOSE h \in {from_ne_bytes(d, e) :
                     d \in {<<BAt(b, start), BAt(b, Add(start, Wide(1))),
                              BAt(b, Add(start, Wide(2))),
                              BAt(b, Add(start, Wide(3)))>>}} : TRUE

\* idx_start += 4
AfterHeader(start) == Add(start, Wide(HeaderBytes))

\* Mutant: <= in place of <, an empty body is rejected.
IndexInvalid_RejectEmpty(end, start, len) == Lt(len, end) \/ Le(end, start)

\* Mutant: >= in place of >, a frame ending the blob is rejected.
IndexInvalid_GeLen(end, start, len) == Le(len, end) \/ Lt(end, start)

\* Mutant: the check against the slice start is missing.
IndexInvalid_NoBackCheck(end, start, len) == Lt(len, end)

\* idx_end > blob.len() || idx_end < idx_start
IndexInvalid(end, start, len) == Lt(len, end) \/ Lt(end, start)

\* if blob.len() > u32::MAX as usize { return Err(BlobReadError::TooLarge); }
DecTooLarge ==
    /\ pc = "dec_entry"
    /\ IsTooLarge(BLen(blob))
    /\ result' = TooLarge
    /\ pc' = "done"
    /\ UNCHANGED <<endian, caller, blob, idx_start, idx_end, byte_arrays, reads>>
    /\ UNCHANGED enc_vars

\* let mut idx_end = 0; let mut idx_start = 0; let mut byte_arrays = Vec::new();
DecEnter ==
    /\ pc = "dec_entry"
    /\ ~IsTooLarge(BLen(blob))
    /\ idx_end' = Zero
    /\ idx_start' = Zero
    /\ byte_arrays' = <<>>
    /\ pc' = "dec_loop"
    /\ UNCHANGED <<endian, caller, blob, reads, result>>
    /\ UNCHANGED enc_vars

\* An iteration whose header window idx_start..idx_start+4 passes the end of
\* the blob: the slice index panics.
DecPanic ==
    /\ pc = "dec_loop"
    /\ LoopCond(idx_end, BLen(blob))
    /\ ~HeaderInBounds(idx_start, BLen(blob))
    /\ reads' = reads + 1
    /\ result' = Panic
    /\ pc' = "done"
    /\ UNCHANGED <<endian, caller, blob, idx_start, idx_end, byte_arrays>>
    /\ UNCHANGED enc_vars

\* An iteration that reads a header and returns Err(InvalidEncodedIndex(idx_end)).
DecInvalid ==
    /\ pc = "dec_loop"
    /\ LoopCond(idx_end, BLen(blob))
    /\ HeaderInBounds(idx_start, BLen(blob))
    /\ idx_end' = ReadHeader(blob, idx_start, endian)
    /\ idx_start' = AfterHeader(idx_start)
    /\ IndexInvalid(idx_end', idx_start', BLen(blob))
    /\ result' = InvalidEncodedIndex(idx_end')
    /\ reads' = reads + 1
    /\ pc' = "done"
    /\ UNCHANGED <<endian, caller, blob, byte_arrays>>
    /\ UNCHANGED enc_vars

\* An iteration that reads a header and pushes &blob[idx_start..idx_end].
DecPush ==
    /\ pc = "dec_loop"
    /\ LoopCond(idx_end, BLen(blob))
    /\ HeaderInBounds(idx_start, BLen(blob))
    /\ idx_end' = ReadHeader(blob, idx_start, endian)
    /\ ~IndexInvalid(idx_end', AfterHeader(idx_start), BLen(blob))
    /\ byte_arrays' = Append(byte_arrays,
                             [lo |-> AfterHeader(idx_start), hi |-> idx_end'])
    /\ idx_start' = idx_end'
    /\ reads' = reads + 1
    /\ UNCHANGED <<endian, caller, pc, blob, result>>
    /\ UNCHANGED enc_vars

\* The loop is over: Ok(byte_arrays).  The caller that decodes first hands the
\* slices to byte_arrays_to_blob.
DecReturnOk ==
    /\ pc = "dec_loop"
    /\ ~LoopCond(idx_end, BLen(blob))
    /\ result' = Ok
    /\ IF caller = "decode_encode"
       THEN /\ bytes_2d' = [i \in 1..Len(byte_arrays) |-> ViewBytes(byte_arrays[i])]
            /\ pc' = "enc_entry"
       ELSE /\ bytes_2d' = bytes_2d
            /\ pc' = "done"
    /\ UNCHANGED <<endian, caller, enc_i, enc_idx_end, enc_blob, blob,
                   idx_start, idx_end, byte_arrays, reads>>

Next ==
    \/ EncEnter
    \/ EncIter
    \/ EncReturn
    \/ DecTooLarge
    \/ DecEnter
    \/ DecPanic
    \/ DecInvalid
    \/ DecPush
    \/ DecReturnOk

Spec == Init /\ [][Next]_vars

\* The code is sequential: a call that can take a step takes it.
FairSpec == Spec /\ WF_vars(Next)

\* ------------------------------------------------------------ claims

RECURSIVE SumLen(_)
\* Sum of the lengths of the slices of bufs.
SumLen(bufs) ==
    IF bufs = <<>> THEN Zero ELSE Add(BLen(bufs[1]), SumLen(Tail(bufs)))

\* Sum of the lengths plus 4 for each slice.
EncodedSize(bufs) == Add(SumLen(bufs), Wide(HeaderBytes * Len(bufs)))

\* Offset at which the body of the i-th slice ends in the encoding of bufs.
CumEnd(bufs, i) == EncodedSize(SubSeq(bufs, 1, i))

\* The encoded size is within the range of a u32 header.
Fits(bufs) == Le(EncodedSize(bufs), U32_MAX)

\* byte_arrays_to_blob has returned enc_blob for bytes_2d.
EncReturned ==
    \/ caller = "encode_decode" /\ pc \in {"dec_entry", "dec_loop", "done"}
    \/ caller = "decode_encode" /\ pc = "done" /\ result.kind = "Ok"

\* blob_to_byte_arrays has returned or panicked.
DecEnded == result.kind # "Running"

RECURSIVE ViewsLen(_)
\* Sum of the lengths of the views vs.
ViewsLen(vs) ==
    IF vs = <<>> THEN Zero
    ELSE Add(Sub(vs[1].hi, vs[1].lo), ViewsLen(Tail(vs)))

\* Position of the header of the i-th frame of vs: where the frame before ends.
HeaderPos(vs, i) == IF i = 1 THEN Zero ELSE vs[i - 1].hi

\* The views vs are the bodies of adjacent frames of blob starting at offset 0,
\* each frame's header holding the end of its body, within both bounds.
Tiles(vs) ==
    \A i \in 1..Len(vs) :
        /\ vs[i].lo = Add(HeaderPos(vs, i), Wide(HeaderBytes))
        /\ vs[i].hi = ReadHeader(blob, HeaderPos(vs, i), endian)
        /\ Le(vs[i].lo, vs[i].hi)
        /\ Le(vs[i].hi, BLen(blob))

\* C1: round trip.  When byte_arrays_to_blob is given slices whose encoded
\* size fits a u32 and blob_to_byte_arrays is given the blob it returns, the
\* decoder returns Ok with as many slices as were encoded, each equal to the
\* slice encoded at that place.
C1_RoundTrip ==
    (caller = "encode_decode" /\ pc = "done" /\ Fits(bytes_2d)) =>
        /\ result.kind = "Ok"
        /\ Len(byte_arrays) = Len(bytes_2d)
        /\ \A i \in 1..Len(bytes_2d) : ViewBytes(byte_arrays[i]) = bytes_2d[i]

\* C1 witness: a round trip of two slices, the last one empty, has ended.
C1_Witness ==
    /\ caller = "encode_decode" /\ pc = "done" /\ Fits(bytes_2d)
    /\ Len(bytes_2d) = 2 /\ bytes_2d[1] # <<>> /\ bytes_2d[2] = <<>>
    /\ result.kind = "Ok"

\* C2: size law.  The blob byte_arrays_to_blob returns is as long as the sum
\* of the slices' lengths plus 4 for each slice, whatever the slices.
C2_SizeLaw == EncReturned => BLen(enc_blob) = EncodedSize(bytes_2d)

\* C2 witness: the encoder has returned a blob for two non-empty slices.
C2_Witness ==
    /\ EncReturned /\ caller = "encode_decode"
    /\ Len(bytes_2d) = 2 /\ bytes_2d[1] # <<>> /\ bytes_2d[2] # <<>>

\* C3: blob_to_byte_arrays never faults: every call ends in Ok, TooLarge or
\* InvalidEncodedIndex, also when fewer than 4 bytes remain where a header
\* is expected.
C3_NeverFaults == result.kind # "Panic"

\* C4: invalid header rejection.  A call that returns InvalidEncodedIndex(h)
\* was given a blob of at most u32::MAX bytes, h is the value of the header
\* that follows the frames accepted so far, and h is greater than the blob's
\* length or less than the start of its own body; and every frame accepted
\* has a header within both bounds, so the rejected one is the first.
C4_InvalidHeaderRejected ==
    /\ Tiles(byte_arrays)
    /\ result.kind = "InvalidEncodedIndex" =>
         LET pos == HeaderPos(byte_arrays, Len(byte_arrays) + 1)
             h == ReadHeader(blob, pos, endian)
         IN  /\ Le(BLen(blob), U32_MAX)
             /\ result.idx = h
             /\ Lt(BLen(blob), h) \/ Lt(h, Add(pos, Wide(HeaderBytes)))

\* C4 witness: a frame was accepted and the next header, smaller than the
\* first one, was rejected.
C4_Witness ==
    /\ result.kind = "InvalidEncodedIndex"
    /\ byte_arrays # <<>>
    /\ Lt(result.idx, byte_arrays[1].hi)

\* C5: oversize guard.  A call on a blob longer than u32::MAX returns
\* TooLarge without a header read, and TooLarge is returned for no blob of at
\* most u32::MAX bytes.
C5_OversizeGuard ==
    /\ ((pc = "dec_loop" \/ DecEnded) /\ Lt(U32_MAX, BLen(blob))) =>
           result = TooLarge /\ reads = 0 /\ byte_arrays = <<>>
    /\ result.kind = "TooLarge" => Lt(U32_MAX, BLen(blob))

\* C5 witness: a blob from outside, longer than u32::MAX, was answered TooLarge.
C5_Witness == caller = "decode_encode" /\ result.kind = "TooLarge"

\* C6: the encoder has no failure path.  For slices whose encoded size passes
\* u32::MAX it returns the blob of that size, each header holding the low 32
\* bits of the cumulative offset, and the decoder answers TooLarge to it.
C6_OversizeEncode ==
    (caller = "encode_decode" /\ EncReturned /\ ~Fits(bytes_2d)) =>
        /\ BLen(enc_blob) = EncodedSize(bytes_2d)
        /\ \A i \in 1..Len(bytes_2d) :
             LET pos == CumEnd(bytes_2d, i - 1)
             IN  BSlice(enc_blob, pos, Add(pos, Wide(HeaderBytes)))
                   = FromBytes(to_ne_bytes(AsU32(CumEnd(bytes_2d, i)), endian))
        /\ pc = "done" => result = TooLarge

\* C6 witness: slices encoding to exactly 2^32 bytes (the header wraps to 0)
\* were encoded and the blob decoded.
C6_Witness ==
    /\ caller = "encode_decode" /\ pc = "done"
    /\ EncodedSize(bytes_2d) = Add(U32_MAX, Wide(1))

\* C7: encoder header invariant.  In the blob returned for slices whose
\* encoded size fits a u32, the header of frame i sits where frame i-1 ends
\* (0 for the first), holds the sum of 4 + length over the slices up to i,
\* the bytes of slice i follow it, and the last header is the blob's length.
C7_HeaderInvariant ==
    (EncReturned /\ Fits(bytes_2d)) =>
        /\ \A i \in 1..Len(bytes_2d) :
             LET pos == CumEnd(bytes_2d, i - 1)
                 end == CumEnd(bytes_2d, i)
             IN  /\ ReadHeader(enc_blob, pos, endian) = end
                 /\ BSlice(enc_blob, Add(pos, Wide(HeaderBytes)), end) = bytes_2d[i]
        /\ bytes_2d # <<>> =>
             ReadHeader(enc_blob, CumEnd(bytes_2d, Len(bytes_2d) - 1), endian)
               = BLen(enc_blob)

\* C7 witness: the encoder has returned for two slices, the first non-empty.
C7_Witness ==
    /\ EncReturned /\ caller = "encode_decode" /\ Fits(bytes_2d)
    /\ Len(bytes_2d) = 2 /\ bytes_2d[1] # <<>>

\* C8: exact tiling.  When the decoder returns Ok for a non-empty blob, the
\* last header read is the blob's length, the slices are the bodies of
\* adjacent frames starting at offset 0, and the slices' lengths plus 4 for
\* each slice add up to the blob's length.
C8_ExactTiling ==
    (result.kind = "Ok" /\ blob # <<>>) =>
        /\ byte_arrays # <<>>
        /\ idx_end = BLen(blob)
        /\ byte_arrays[Len(byte_arrays)].hi = BLen(blob)
        /\ Tiles(byte_arrays)
        /\ Add(ViewsLen(byte_arrays), Wide(HeaderBytes * Len(byte_arrays)))
             = BLen(blob)

\* C8 witness: a blob from outside was accepted with two frames, one non-empty.
C8_Witness ==
    /\ caller = "decode_encode" /\ result.kind = "Ok"
    /\ Len(byte_arrays) = 2
    /\ ViewsLen(byte_arrays) # Zero

\* C9: decoder termination.  An iteration that stays in the loop raises
\* idx_start by at least 4 and keeps it within the blob; the header reads
\* number at most floor(len/4) + 1 and the slices at most floor(len/4); and
\* a call that is in the loop leaves it.
C9_Termination ==
    /\ [][(pc = "dec_loop" /\ pc' = "dec_loop") =>
            /\ Le(Add(idx_start, Wide(HeaderBytes)), idx_start')
            /\ Le(idx_start', BLen(blob))]_vars
    /\ [](/\ Le(Wide(HeaderBytes * reads), Add(BLen(blob), Wide(HeaderBytes)))
          /\ Le(Wide(HeaderBytes * Len(byte_arrays)), BLen(blob)))
    /\ (pc = "dec_loop") ~> (pc # "dec_loop")

\* C9 witness: a call made floor(len/4) + 1 header reads, the last one faulting.
C9_Witness ==
    /\ result.kind = "Panic"
    /\ reads = 3
    /\ BLen(blob) = Wide(9)

\* C10 as stated: the blob re-encoded from the slices of an accepted blob is
\* that blob, and the decoder accepts every blob the encoder returns.
C10_Original ==
    /\ (caller = "decode_encode" /\ pc = "done" /\ result.kind = "Ok") =>
           enc_blob = blob
    /\ (caller = "encode_decode" /\ pc = "done") => result.kind = "Ok"

\* C10 amended: the blob re-encoded from the slices of an accepted blob is
\* that blob, and the decoder accepts every blob of at most u32::MAX bytes
\* that the encoder returns.
C10_ReEncode ==
    /\ (caller = "decode_encode" /\ pc = "done" /\ result.kind = "Ok") =>
           enc_blob = blob
    /\ (caller = "encode_decode" /\ pc = "done" /\ Le(BLen(blob), U32_MAX)) =>
           result.kind = "Ok"

\* C10 witness: a blob from outside with two frames was accepted and
\* re-encoded.
C10_Witness ==
    /\ caller = "decode_encode" /\ pc = "done" /\ result.kind = "Ok"
    /\ Len(byte_arrays) = 2
    /\ Len(enc_blob) > 1

====
